---- MODULE Spec2Model ----
(***************************************************************************)
(* A model of pointpats/geometry.py: the shape dispatchers (area, bbox,    *)
(* contains), the tree builder build_best_tree, the neighbour query helper *)
(* k_neighbors and the hull normaliser prepare_hull.                       *)
(*                                                                         *)
(* Every function of the module is pure, so each specification below is a  *)
(* session against the loaded module: Init is the state after the module   *)
(* has been imported, and each action is one call of one function with     *)
(* its arguments drawn from a bounded set, recording the call and what it  *)
(* returned or raised.                                                     *)
(*                                                                         *)
(* Representation.  A numpy array is a record [shape, data] with data in   *)
(* row-major order, as numpy stores it; a 0-d array stands for a numpy     *)
(* scalar.  Coordinates are integers.  Python indices are 0-based and are  *)
(* kept 0-based in every index the program computes with; only the TLA+    *)
(* sequences that store them are 1-based.                                  *)
(***************************************************************************)
EXTENDS Integers, Sequences, FiniteSets

VARIABLES HAS_SHAPELY, HAS_PYGEOS, sklearn_installed, call, result, warned, queried

vars == <<HAS_SHAPELY, HAS_PYGEOS, sklearn_installed, call, result, warned, queried>>

----------------------------------------------------------------------------
(* Bounds of the model *)

\* largest coordinate of a point handed to the shape functions (0..MaxCoord)
MaxCoord == 1
\* most rows of an array handed to the shape functions
MaxN == 4
\* most points of a list of points, and of the coordinates handed to
\* prepare_hull and build_best_tree
SmallMaxN == 2

----------------------------------------------------------------------------
(* Python values *)

Ok(v) == [status |-> "ok", exc |-> "", value |-> v]

Raise(e) == [status |-> "raise", exc |-> e, value |-> <<>>]

\* The product of the entries of a shape tuple: the number of elements.
RECURSIVE Prod(_)
Prod(s) == IF s = <<>> THEN 1 ELSE Head(s) * Prod(Tail(s))

ndim(a) == Len(a.shape)

len(a) == a.shape[1]

\* a[i] for a 0-based i < len(a): the i-th sub-array along the first axis.
Item(a, i) ==
    LET stride == Prod(Tail(a.shape))
    IN  [shape |-> Tail(a.shape),
         data  |-> SubSeq(a.data, i * stride + 1, (i + 1) * stride)]

Abs(v) == IF v < 0 THEN -v ELSE v

\* numpy's elementwise arithmetic on two arrays of one shape.
Minus(a, b) == [shape |-> a.shape, data |-> [j \in 1..Len(a.data) |-> a.data[j] - b.data[j]]]

Times(a, b) == [shape |-> a.shape, data |-> [j \in 1..Len(a.data) |-> a.data[j] * b.data[j]]]

numpy_abs(a) == [shape |-> a.shape, data |-> [j \in 1..Len(a.data) |-> Abs(a.data[j])]]

\* The reduction a.min(axis=0) / a.max(axis=0) of an array with ndim >= 1 and
\* len(a) >= 1: fold the rows a[0], a[1], ... elementwise.
RECURSIVE ReduceMin(_, _, _)
ReduceMin(a, i, acc) ==
    IF i = len(a) THEN acc
    ELSE LET row == Item(a, i)
         IN  ReduceMin(a, i + 1,
                [shape |-> acc.shape,
                 data  |-> [j \in 1..Len(acc.data) |->
                               IF row.data[j] < acc.data[j] THEN row.data[j] ELSE acc.data[j]]])

RECURSIVE ReduceMax(_, _, _)
ReduceMax(a, i, acc) ==
    IF i = len(a) THEN acc
    ELSE LET row == Item(a, i)
         IN  ReduceMax(a, i + 1,
                [shape |-> acc.shape,
                 data  |-> [j \in 1..Len(acc.data) |->
                               IF row.data[j] > acc.data[j] THEN row.data[j] ELSE acc.data[j]]])

min_axis0(a) == ReduceMin(a, 1, Item(a, 0))

max_axis0(a) == ReduceMax(a, 1, Item(a, 0))

\* A Python object as the functions see it: its runtime type, its numeric
\* content (an array, a list of numbers or points, a number, the points of a
\* hull) and, for a string, its characters.
NoArr == [shape |-> <<0>>, data |-> <<>>]

PyObj(kind, a, chars) == [kind |-> kind, arr |-> a, str |-> chars]

ndarray(a) == PyObj("ndarray", a, <<>>)

pylist(a) == PyObj("list", a, <<>>)

pystr(chars) == PyObj("str", NoArr, chars)

None == PyObj("NoneType", NoArr, <<>>)

\* numpy.asarray: the array with the content of the nested list.
numpy_asarray(obj) == ndarray(obj.arr)

----------------------------------------------------------------------------
(* bbox *)

\* is_bbox_array without the dimension test: any array of length 4 passes through.
is_bbox_array_any_ndim(shape) == len(shape) = 4

\* is_bbox_array with the wrong length: a pair, not a box, passes through.
is_bbox_array_len2(shape) == (ndim(shape) = 1) /\ (len(shape) = 2)

\* The test that lets an existing bounding box pass through.
is_bbox_array(shape) == (ndim(shape) = 1) /\ (len(shape) = 4)

\* @bbox.register for numpy.ndarray
bbox_ndarray(shape) ==
    IF is_bbox_array(shape) THEN Ok(ndarray(shape))
    ELSE IF ndim(shape) = 1
         \* shape.min(axis=0) is a numpy scalar and *scalar cannot be unpacked
         THEN Raise("TypeError")
         ELSE LET lo == min_axis0(shape)
                  hi == max_axis0(shape)
              IN  Ok(ndarray([shape |-> <<Len(lo.data) + Len(hi.data)>>,
                              data  |-> lo.data \o hi.data]))

\* bbox, dispatched on the type of its argument; the default converts to an
\* array and dispatches again.
bbox(shape) ==
    IF shape.kind = "ndarray" THEN bbox_ndarray(shape.arr)
    ELSE bbox_ndarray(numpy_asarray(shape).arr)

----------------------------------------------------------------------------
(* area *)

\* area_precondition as centroid states it: a flat array of 4 numbers.
area_precondition_flat(shape) == shape.shape = <<4>>

\* The precondition of the bounding-box override.
area_precondition(shape) == len(shape) = 4

\* @area.register for numpy.ndarray
area_ndarray(shape) ==
    IF ~area_precondition(shape) THEN Raise("AssertionError")
    ELSE LET width  == Minus(Item(shape, 2), Item(shape, 0))
             height == Minus(Item(shape, 3), Item(shape, 1))
         IN  Ok(ndarray(numpy_abs(Times(width, height))))

\* area, dispatched on the type of its argument; the default reads the
\* attribute shape.area, which neither an array nor a list has.
area(shape) ==
    IF shape.kind = "ndarray" THEN area_ndarray(shape.arr)
    ELSE Raise("AttributeError")

----------------------------------------------------------------------------
(* contains *)

\* in_interval with the upper bound excluded
in_interval_half_open(lo, v, hi) == (lo <= v) /\ (v < hi)

\* xmin <= x <= xmax, as the chained "and" computes it
in_interval(lo, v, hi) == (lo <= v) /\ (v <= hi)

\* @contains.register for numpy.ndarray; shape is 1-dimensional, x and y scalars
contains_ndarray(shape, x, y) ==
    IF len(shape) < 4 THEN Raise("IndexError")
    ELSE LET xmin == Item(shape, 0).data[1]
             xmax == Item(shape, 2).data[1]
             ymin == Item(shape, 1).data[1]
             ymax == Item(shape, 3).data[1]
             in_x == in_interval(xmin, x, xmax)
             in_y == in_interval(ymin, y, ymax)
         IN  Ok(in_x /\ in_y)

\* contains, dispatched on the type of its first argument; the default raises.
contains(shape, x, y) ==
    IF shape.kind = "ndarray" THEN contains_ndarray(shape.arr, x, y)
    ELSE Raise("NotImplementedError")

----------------------------------------------------------------------------
(* Inputs of the shape functions *)

Coord == 0..MaxCoord

\* Coordinates a containment query may ask about: also just outside the range.
QueryCoord == (0 - 1)..(MaxCoord + 1)

\* The n x 2 arrays of points.
PointClouds(n) == {[shape |-> <<n, 2>>, data |-> d] : d \in [1..(2 * n) -> Coord]}

\* The 1-dimensional arrays of n numbers; those of length 4 are boxes.
FlatArrays(n) == {[shape |-> <<n>>, data |-> d] : d \in [1..n -> Coord]}

\* An array of points, a flat array, or a short list of points, of n entries.
ShapeInputs(n) ==
    {ndarray(a) : a \in PointClouds(n) \cup FlatArrays(n)}
    \cup (IF n <= SmallMaxN THEN {pylist(a) : a \in PointClouds(n)} ELSE {})

----------------------------------------------------------------------------
(* The shape session: one call of bbox, area or contains *)

Pending == [status |-> "pending", exc |-> "", value |-> <<>>]

Init ==
    /\ HAS_SHAPELY = FALSE
    /\ HAS_PYGEOS = FALSE
    /\ sklearn_installed = FALSE
    /\ \E n \in 1..MaxN :
          \/ \E op \in {"bbox", "area"}, s \in ShapeInputs(n) :
                call = [op |-> op, shape |-> s, x |-> 0, y |-> 0]
          \/ \E a \in FlatArrays(n), x \in QueryCoord, y \in QueryCoord :
                \/ call = [op |-> "contains", shape |-> ndarray(a), x |-> x, y |-> y]
                \/ call = [op |-> "contains", shape |-> pylist(a), x |-> x, y |-> y]
    /\ result = Pending
    /\ warned = <<>>
    /\ queried = <<>>

Call_bbox ==
    /\ call.op = "bbox"
    /\ result = Pending
    /\ result' = bbox(call.shape)
    /\ UNCHANGED <<HAS_SHAPELY, HAS_PYGEOS, sklearn_installed, call, warned, queried>>

\* bbox applied once more, to the box the bbox call returned
Call_bbox_of_result ==
    /\ call.op = "bbox"
    /\ result.status = "ok"
    /\ call' = [call EXCEPT !.shape = result.value]
    /\ result' = bbox(result.value)
    /\ UNCHANGED <<HAS_SHAPELY, HAS_PYGEOS, sklearn_installed, warned, queried>>

Call_area ==
    /\ call.op = "area"
    /\ result = Pending
    /\ result' = area(call.shape)
    /\ UNCHANGED <<HAS_SHAPELY, HAS_PYGEOS, sklearn_installed, call, warned, queried>>

Call_contains ==
    /\ call.op = "contains"
    /\ result = Pending
    /\ result' = contains(call.shape, call.x, call.y)
    /\ UNCHANGED <<HAS_SHAPELY, HAS_PYGEOS, sklearn_installed, call, warned, queried>>

Next == Call_bbox \/ Call_bbox_of_result \/ Call_area \/ Call_contains

Spec == Init /\ [][Next]_vars

----------------------------------------------------------------------------
(* Properties of the shape session *)

SetMin(S) == CHOOSE m \in S : \A e \in S : m <= e

SetMax(S) == CHOOSE m \in S : \A e \in S : m >= e

\* The x and the y coordinates of the points of an N x 2 array.
Xs(P) == {P.data[2 * i - 1] : i \in 1..P.shape[1]}

Ys(P) == {P.data[2 * i] : i \in 1..P.shape[1]}

IsCloudCall(op) ==
    /\ call.op = op
    /\ call.shape.kind = "ndarray"
    /\ ndim(call.shape.arr) = 2
    /\ result # Pending

IsBoxCall(op) ==
    /\ call.op = op
    /\ call.shape.kind = "ndarray"
    /\ call.shape.arr.shape = <<4>>
    /\ result # Pending

\* C2: bbox of an N x 2 point cloud, N >= 1, is the flat array
\* [min x, min y, max x, max y], each extreme taken over all N points; also
\* when N is 2 or 4 the cloud is not taken for a bounding box.
C2_BboxOfCloud ==
    IsCloudCall("bbox") =>
        /\ result.status = "ok"
        /\ result.value.kind = "ndarray"
        /\ result.value.arr.shape = <<4>>
        /\ result.value.arr.data = <<SetMin(Xs(call.shape.arr)), SetMin(Ys(call.shape.arr)),
                                     SetMax(Xs(call.shape.arr)), SetMax(Ys(call.shape.arr))>>

\* A cloud of exactly 4 points whose box differs from each of its rows.
C2_Witness ==
    /\ IsCloudCall("bbox")
    /\ call.shape.arr.shape = <<4, 2>>
    /\ call.shape.arr.data = <<1, 0, 0, 1, 0, 0, 1, 1>>
    /\ result.status = "ok"
    /\ result.value.arr.data = <<0, 0, 1, 1>>

\* C3: bbox is idempotent: a flat 4-element box is returned as it is, and the
\* bbox of whatever bbox returned is that same box.
C3_BboxIdempotent ==
    /\ IsBoxCall("bbox") =>
          /\ result.status = "ok"
          /\ result.value = call.shape
    /\ (call.op = "bbox" /\ result.status = "ok") =>
          /\ bbox(result.value).status = "ok"
          /\ bbox(result.value).value = result.value

\* bbox was applied to the box it had computed from a cloud, and returned it.
C3_Witness ==
    /\ IsBoxCall("bbox")
    /\ call.shape.arr.data = <<0, 0, 1, 1>>
    /\ result.status = "ok"
    /\ result.value.arr.data = <<0, 0, 1, 1>>

\* C4: contains on a box [xmin, ymin, xmax, ymax] is true exactly when
\* xmin <= x <= xmax and ymin <= y <= ymax, both intervals closed.
C4_ContainsClosedBox ==
    IsBoxCall("contains") =>
        /\ result.status = "ok"
        /\ result.value = (/\ call.shape.arr.data[1] <= call.x
                           /\ call.x <= call.shape.arr.data[3]
                           /\ call.shape.arr.data[2] <= call.y
                           /\ call.y <= call.shape.arr.data[4])

\* The upper right corner of the box [0, 0, 1, 1] is contained.
C4_Witness ==
    /\ IsBoxCall("contains")
    /\ call.shape.arr.data = <<0, 0, 1, 1>>
    /\ call.x = 1
    /\ call.y = 1
    /\ result.status = "ok"
    /\ result.value = TRUE

----------------------------------------------------------------------------
(* prepare_hull *)

\* s.startswith(p) with "p occurs somewhere in s" in its place
startswith_anywhere(s, p) ==
    \E i \in 0..(Len(s) - Len(p)) : SubSeq(s, i + 1, i + Len(p)) = p

\* str.startswith
startswith(s, p) == Len(p) <= Len(s) /\ SubSeq(s, 1, Len(p)) = p

\* hull == "bbox": equal only for the string with these characters
eq_str(obj, chars) == obj.kind = "str" /\ obj.str = chars

\* is_default_hull with the comparison against "bbox" left out
is_default_hull_none_only(hull) == hull.kind = "NoneType"

\* (hull is None) or (hull == "bbox")
is_default_hull(hull) == (hull.kind = "NoneType") \/ eq_str(hull, <<"b", "b", "o", "x">>)

\* scipy's spatial.ConvexHull(coordinates) and libpysal's
\* alpha_shape_auto(coordinates): the object built over the coordinates.  A
\* failure of these libraries on degenerate coordinates is theirs and
\* propagates; it is left out.
spatial_ConvexHull(coordinates) == PyObj("ConvexHull", coordinates.arr, <<>>)

alpha_shape_auto(coordinates) == PyObj("Polygon", coordinates.arr, <<>>)

prepare_hull(coordinates, hull) ==
    IF hull.kind = "ndarray"
    THEN IF len(hull.arr) # 4 THEN Raise("AssertionError")
         ELSE IF ndim(hull.arr) # 1 THEN Raise("AssertionError")
         ELSE Ok(hull)
    ELSE IF is_default_hull(hull) THEN bbox(coordinates)
    ELSE IF HAS_SHAPELY /\ hull.kind \in {"Polygon", "MultiPolygon"} THEN Ok(hull)
    ELSE IF HAS_PYGEOS /\ hull.kind = "pygeos.Geometry" THEN Ok(hull)
    ELSE IF hull.kind = "str" /\ startswith(hull.str, <<"c", "o", "n", "v", "e", "x">>)
         THEN Ok(spatial_ConvexHull(coordinates))
    ELSE IF hull.kind = "str" /\ (\/ startswith(hull.str, <<"a", "l", "p", "h", "a">>)
                                  \/ startswith(hull.str, <<"α">>))
         THEN Ok(alpha_shape_auto(coordinates))
    ELSE IF hull.kind # "str" /\ hull.kind = "ConvexHull" THEN Ok(hull)
    ELSE Raise("ValueError")

\* The n x 2 arrays of points, as arrays and as lists of points.
CoordinateInputs(n) == {ndarray(a) : a \in PointClouds(n)} \cup {pylist(a) : a \in PointClouds(n)}

HullStrings ==
    { <<"b", "b", "o", "x">>, <<"b", "b", "o">>, <<"b", "b", "o", "x", "e", "s">>,
      <<"B", "B", "O", "X">>,
      <<"c", "o", "n", "v", "e", "x">>, <<"c", "o", "n", "v", "e", "x", "_", "h", "u", "l", "l">>,
      <<"c", "o", "n", "v", "e">>, <<"C", "o", "n", "v", "e", "x">>,
      <<"n", "o", "n", "c", "o", "n", "v", "e", "x">>,
      <<"a", "l", "p", "h", "a">>, <<"a", "l", "p", "h", "a", "_", "s", "h", "a", "p", "e">>,
      <<"a", "l", "p", "h">>, <<"α">>, <<"α", "-", "s", "h", "a", "p", "e">>,
      <<"i", "n", "_", "α">>, <<"f", "o", "o">>, <<>> }

\* Hull values that are not arrays: nothing, strings, a number, a plain list
\* of four numbers, a convex hull or a triangulation from scipy, and the
\* geometries of the optional libraries that are installed.
OtherHulls ==
    {None}
    \cup {pystr(c) : c \in HullStrings}
    \cup {PyObj("int", [shape |-> <<>>, data |-> <<12345>>], <<>>),
          PyObj("list", [shape |-> <<4>>, data |-> <<0, 0, 1, 1>>], <<>>),
          PyObj("ConvexHull", [shape |-> <<3, 2>>, data |-> <<0, 0, 1, 0, 0, 1>>], <<>>),
          PyObj("Delaunay", [shape |-> <<3, 2>>, data |-> <<0, 0, 1, 0, 0, 1>>], <<>>)}
    \cup (IF HAS_SHAPELY
          THEN {PyObj(k, [shape |-> <<3, 2>>, data |-> <<0, 0, 1, 0, 0, 1>>], <<>>) :
                   k \in {"Polygon", "MultiPolygon", "Point", "LineString"}}
          ELSE {})
    \cup (IF HAS_PYGEOS
          THEN {PyObj("pygeos.Geometry", [shape |-> <<3, 2>>, data |-> <<0, 0, 1, 0, 0, 1>>], <<>>)}
          ELSE {})

\* An array hull is returned or rejected before the coordinates are read, so
\* the array hulls are tried with the one-point coordinate sets only.
InitHull ==
    /\ HAS_SHAPELY \in BOOLEAN
    /\ HAS_PYGEOS \in BOOLEAN
    /\ sklearn_installed = FALSE
    /\ \/ \E n \in 1..SmallMaxN : \E c \in CoordinateInputs(n), h \in OtherHulls :
             call = [op |-> "prepare_hull", coordinates |-> c, hull |-> h]
       \/ \E c \in PointClouds(1), n \in 1..MaxN :
             \E h \in FlatArrays(n) \cup (IF n <= SmallMaxN THEN PointClouds(n) ELSE {}) :
                call = [op |-> "prepare_hull", coordinates |-> ndarray(c), hull |-> ndarray(h)]
    /\ result = Pending
    /\ warned = <<>>
    /\ queried = <<>>

Call_prepare_hull ==
    /\ call.op = "prepare_hull"
    /\ result = Pending
    /\ result' = prepare_hull(call.coordinates, call.hull)
    /\ UNCHANGED <<HAS_SHAPELY, HAS_PYGEOS, sklearn_installed, call, warned, queried>>

NextHull == Call_prepare_hull

SpecHull == InitHull /\ [][NextHull]_vars

\* C5: with the hull absent or the string "bbox", prepare_hull returns
\* bbox(coords): both results equal bbox(coords), the flat array of the
\* per-axis minima and maxima, and so each other.
C5_PrepareHullDefault ==
    (call.op = "prepare_hull" /\ result # Pending
        /\ (call.hull = None \/ call.hull = pystr(<<"b", "b", "o", "x">>))) =>
        /\ result.status = "ok"
        /\ bbox(call.coordinates).status = "ok"
        /\ result.value = bbox(call.coordinates).value
        /\ result.value.kind = "ndarray"
        /\ result.value.arr.shape = <<4>>
        /\ result.value.arr.data =
              <<SetMin(Xs(call.coordinates.arr)), SetMin(Ys(call.coordinates.arr)),
                SetMax(Xs(call.coordinates.arr)), SetMax(Ys(call.coordinates.arr))>>

\* prepare_hull was called with "bbox" on two points and returned their box.
C5_Witness ==
    /\ call.op = "prepare_hull"
    /\ call.hull = pystr(<<"b", "b", "o", "x">>)
    /\ call.coordinates.arr.data = <<1, 0, 0, 1>>
    /\ result.status = "ok"
    /\ result.value.arr.data = <<0, 0, 1, 1>>

\* The hull values C6 speaks of: no array and none of the accepted forms.
IsUnrecognizedHull(hull) ==
    /\ hull.kind # "ndarray"
    /\ hull.kind # "NoneType"
    /\ ~(hull.kind = "str" /\ hull.str = <<"b", "b", "o", "x">>)
    /\ ~(HAS_SHAPELY /\ hull.kind \in {"Polygon", "MultiPolygon"})
    /\ ~(HAS_PYGEOS /\ hull.kind = "pygeos.Geometry")
    /\ ~(hull.kind = "str" /\ Len(hull.str) >= 6
            /\ \A i \in 1..6 : hull.str[i] = <<"c", "o", "n", "v", "e", "x">>[i])
    /\ ~(hull.kind = "str" /\ Len(hull.str) >= 5
            /\ \A i \in 1..5 : hull.str[i] = <<"a", "l", "p", "h", "a">>[i])
    /\ ~(hull.kind = "str" /\ Len(hull.str) >= 1 /\ hull.str[1] = "α")
    /\ hull.kind # "ConvexHull"

\* C6: a hull that is no array and matches none of the accepted forms makes
\* prepare_hull fail with the hull-type-not-recognized error; it returns
\* nothing.
C6_PrepareHullRejects ==
    (call.op = "prepare_hull" /\ result # Pending /\ IsUnrecognizedHull(call.hull)) =>
        /\ result.status = "raise"
        /\ result.exc = "ValueError"

\* prepare_hull was called with a string that has "convex" inside but not in
\* front, and rejected it.
C6_Witness ==
    /\ call.op = "prepare_hull"
    /\ call.hull = pystr(<<"n", "o", "n", "c", "o", "n", "v", "e", "x">>)
    /\ result.status = "raise"
    /\ result.exc = "ValueError"

----------------------------------------------------------------------------
(* build_best_tree *)

\* A metric argument: a name, or a function of two points.
metric_name(n) == [kind |-> "str", name |-> n]

metric_function(n) == [kind |-> "function", name |-> n]

NoMetric == [kind |-> "NoneType", name |-> ""]

\* The names the module binds at its top level by import (lines 1-5, 14);
\* a name a function reads that is neither local nor bound here nor a
\* builtin raises NameError.
module_imports ==
    {"numpy", "spatial", "singledispatch", "alpha_shape_auto", "Arc_KDTree"}
    \cup (IF sklearn_installed THEN {"KDTree", "BallTree"} ELSE {})

\* sklearn's KDTree.valid_metrics and BallTree.valid_metrics (a selection of
\* the latter's further names)
KDTree_valid_metrics ==
    {"euclidean", "l2", "minkowski", "p", "manhattan", "cityblock", "l1",
     "chebyshev", "infinity"}

BallTree_valid_metrics ==
    KDTree_valid_metrics \cup {"haversine", "mahalanobis", "hamming", "canberra", "braycurtis"}

\* metric in <list of names>: a function equals no name
metric_in(metric, names) == metric.kind = "str" /\ metric.name \in names

\* callable(metric)
callable(metric) == metric.kind = "function"

\* The tree constructors: the type, the coordinates indexed and the metric.
Tree(type, coordinates, metric) == [type |-> type, data |-> coordinates.arr, metric |-> metric]

\* What the body of the try block does: the constructor it selects and the
\* warnings it emits, or the exception that leaves it.
try_select_tree(metric) ==
    IF ~sklearn_installed THEN Raise("ModuleNotFoundError")
    ELSE IF metric_in(metric, KDTree_valid_metrics)
         THEN Ok([type |-> "KDTree", metric |-> metric, warnings |-> <<>>])
    ELSE IF metric_in(metric, BallTree_valid_metrics)
         THEN Ok([type |-> "BallTree", metric |-> metric, warnings |-> <<>>])
    ELSE IF callable(metric)
         THEN IF "warnings" \notin module_imports
              THEN Raise("NameError")
              ELSE Ok([type |-> "BallTree", metric |-> metric,
                       warnings |-> <<"Distance metrics defined in pure Python may have unacceptable performance!">>])
    ELSE Raise("KeyError: metric not found in set of available types")

\* the names accepted without scikit-learn, with "l2" forgotten
euclidean_names_without_l2 == {"euclidean"}

\* the names accepted without scikit-learn
euclidean_names == {"l2", "euclidean"}

\* The result of the call and the warnings it emitted.
build_best_tree(coordinates, metric) ==
    LET array == numpy_asarray(coordinates)
        body  == try_select_tree(metric)
    IN  IF body.status = "raise" /\ body.exc = "ModuleNotFoundError"
        THEN IF ~metric_in(metric, euclidean_names)
             THEN [ret |-> Raise("KeyError: metric requires scikit-learn"), warnings |-> <<>>]
             ELSE [ret |-> Ok(Tree("cKDTree", array, NoMetric)), warnings |-> <<>>]
        ELSE IF body.status = "raise"
        THEN [ret |-> body, warnings |-> <<>>]
        ELSE [ret |-> Ok(Tree(body.value.type, array, body.value.metric)),
              warnings |-> body.value.warnings]

Metrics ==
    {metric_name(n) : n \in BallTree_valid_metrics \cup {"cosine", "Euclidean", "foo", ""}}
    \cup {metric_function(n) : n \in {"great_circle", "lambda"}}

InitTree ==
    /\ HAS_SHAPELY = FALSE
    /\ HAS_PYGEOS = FALSE
    /\ sklearn_installed \in BOOLEAN
    /\ \E n \in 1..SmallMaxN : \E c \in CoordinateInputs(n), m \in Metrics :
          call = [op |-> "build_best_tree", coordinates |-> c, metric |-> m]
    /\ result = Pending
    /\ warned = <<>>
    /\ queried = <<>>

Call_build_best_tree ==
    /\ call.op = "build_best_tree"
    /\ result = Pending
    /\ result' = build_best_tree(call.coordinates, call.metric).ret
    /\ warned' = warned \o build_best_tree(call.coordinates, call.metric).warnings
    /\ UNCHANGED <<HAS_SHAPELY, HAS_PYGEOS, sklearn_installed, call, queried>>

NextTree == Call_build_best_tree

SpecTree == InitTree /\ [][NextTree]_vars

\* C7: without the machine-learning library, metric "l2" or "euclidean"
\* returns the baseline tree (cKDTree) over the coordinates, and every other
\* metric, a function included, fails with the error that the metric
\* requires the library; no tree is returned.
C7_TreeWithoutSklearn ==
    (call.op = "build_best_tree" /\ result # Pending /\ ~sklearn_installed) =>
        IF call.metric = metric_name("l2") \/ call.metric = metric_name("euclidean")
        THEN /\ result.status = "ok"
             /\ result.value.type = "cKDTree"
             /\ result.value.data = call.coordinates.arr
        ELSE /\ result.status = "raise"
             /\ result.exc = "KeyError: metric requires scikit-learn"

\* Without the library, "l2" was asked for and the baseline tree returned.
C7_Witness ==
    /\ call.op = "build_best_tree"
    /\ ~sklearn_installed
    /\ call.metric = metric_name("l2")
    /\ result.status = "ok"
    /\ result.value.type = "cKDTree"

\* C8: with the machine-learning library available and a function as the
\* metric, build_best_tree warns about performance and returns a BallTree
\* over the coordinates that uses the function; the call ends in no error.
C8_CallableMetricBuildsBallTree ==
    (call.op = "build_best_tree" /\ result # Pending /\ sklearn_installed
        /\ call.metric.kind = "function") =>
        /\ result.status = "ok"
        /\ result.value.type = "BallTree"
        /\ result.value.data = call.coordinates.arr
        /\ result.value.metric = call.metric
        /\ Len(warned) = 1

----------------------------------------------------------------------------
(* k_neighbors *)

\* most points of a tree handed to k_neighbors
KnnMaxN == 4
\* largest coordinate of such a point (0..KnnMaxCoord)
KnnMaxCoord == 1

\* The squared Euclidean distance between rows i and j (0-based) of the
\* array; it stands for the distance, which orders the points the same way.
RECURSIVE SumSq(_, _)
SumSq(u, v) ==
    IF u = <<>> THEN 0
    ELSE (Head(u) - Head(v)) * (Head(u) - Head(v)) + SumSq(Tail(u), Tail(v))

distance(a, i, j) == SumSq(Item(a, i).data, Item(a, j).data)

\* The ways to go on from the indices r already taken for a query point: the
\* next index is one of the points not taken yet that is nearest to the
\* query point; d[j + 1] is the distance of point j.
RECURSIVE nearest_first(_, _, _)
nearest_first(d, kq, r) ==
    IF Len(r) = kq THEN {r}
    ELSE LET unused  == {j \in 0..(Len(d) - 1) : \A a \in 1..Len(r) : r[a] # j}
             nearest == {j \in unused : \A j2 \in unused : d[j + 1] <= d[j2 + 1]}
         IN  UNION {nearest_first(d, kq, Append(r, j)) : j \in nearest}

\* What tree.query(coordinates, k=kq) may answer for the query point in row
\* i of coordinates: kq different indices of points of the tree, nearest
\* first, none of the points left out nearer than the last one kept.  Which
\* of several equally distant points comes first, and which are kept, is
\* the tree's business: every such answer is possible.
query_rows(tree, coordinates, i, kq) ==
    LET point == Item(coordinates, i).data
        d == [j \in 1..tree.data.shape[1] |-> SumSq(point, Item(tree.data, j - 1).data)]
    IN  nearest_first(d, kq, <<>>)

\* The answers for the rows 0 .. i - 1 of the coordinates, row after row.
\* The tree sees a query point and not its row number, so two rows with the
\* same point get the same answer.
RECURSIVE query_upto(_, _, _, _)
query_upto(tree, coordinates, i, kq) ==
    IF i = 0 THEN {<<>>}
    ELSE LET same == {j \in 0..(i - 2) : Item(coordinates, j) = Item(coordinates, i - 1)}
         IN  IF same # {}
             THEN LET j == CHOOSE j \in same : TRUE
                  IN  {sofar \o SubSeq(sofar, j * kq + 1, (j + 1) * kq) :
                          sofar \in query_upto(tree, coordinates, i - 1, kq)}
             ELSE {sofar \o r : sofar \in query_upto(tree, coordinates, i - 1, kq),
                                r \in query_rows(tree, coordinates, i - 1, kq)}

\* tree.query(coordinates, k=kq): the (distances, indices) pairs it may return.
tree_query(tree, coordinates, kq) ==
    LET n == coordinates.shape[1]
    IN  {[indices   |-> [shape |-> <<n, kq>>, data |-> ix],
          distances |-> [shape |-> <<n, kq>>,
                         data  |-> [p \in 1..(n * kq) |->
                                      SumSq(Item(coordinates, (p - 1) \div kq).data,
                                            Item(tree.data, ix[p]).data)]]] :
            ix \in query_upto(tree, coordinates, n, kq)}

\* The array with the given entries, computed once and stored.
Stored(entries) == SubSeq(entries, 1, Len(entries))

\* indices != full_indices.reshape(n, 1): entry (i, j) is not the index i
other_index_mask(indices) ==
    LET ks == indices.shape[2]
    IN  Stored([p \in 1..Len(indices.data) |-> indices.data[p] # (p - 1) \div ks])

\* has_k_indices with the count compared to k, as its name suggests
has_k_indices_k(mask, n, k) ==
    Stored([r \in 1..n |-> Cardinality({j \in 1..(k + 1) : mask[(r - 1) * (k + 1) + j]}) = k])

\* other_index_mask.sum(axis=1) == (k + 1): row r - 1 holds no self-match
has_k_indices(mask, n, k) ==
    Stored([r \in 1..n |-> Cardinality({j \in 1..(k + 1) : mask[(r - 1) * (k + 1) + j]}) = k + 1])

\* the column cleared in a row without a self-match, off by one: -2
dropped_column_last_but_one(ks) == ks - 2

\* the column -1 cleared in a row without a self-match: the last of ks
dropped_column(ks) == ks - 1

\* array[mask]: the entries of the array the mask selects, in row-major order
RECURSIVE boolean_index(_, _, _)
boolean_index(data, mask, p) ==
    IF p > Len(data) THEN <<>>
    ELSE (IF mask[p] THEN <<data[p]>> ELSE <<>>) \o boolean_index(data, mask, p + 1)

\* flat.reshape(n, k)
reshape(flat, n, k) ==
    IF Len(flat) # n * k THEN Raise("ValueError")
    ELSE Ok([shape |-> <<n, k>>, data |-> flat])

\* other_index_mask[has_k_indices, -1] = False
clear_dropped_column(mask, has_k, ks) ==
    Stored([p \in 1..Len(mask) |->
               IF has_k[(p - 1) \div ks + 1] /\ (p - 1) % ks = dropped_column(ks)
               THEN FALSE ELSE mask[p]])

\* The mask of lines 312-314 for the indices the query returned.
adjusted_mask(mask, n, k) == clear_dropped_column(mask, has_k_indices(mask, n, k), k + 1)

\* distances[mask].reshape(n, k) and indices[mask].reshape(n, k), returned
masked_pair(q, mask, n, k) ==
    LET distances == reshape(boolean_index(q.distances.data, mask, 1), n, k)
        indices   == reshape(boolean_index(q.indices.data, mask, 1), n, k)
    IN  IF distances.status = "raise" THEN distances
        ELSE IF indices.status = "raise" THEN indices
        ELSE Ok([distances |-> distances.value, indices |-> indices.value])

\* The body of k_neighbors after the query has answered q.
k_neighbors(q, k) ==
    LET n  == q.distances.shape[1]
        ks == q.distances.shape[2]
    IN  IF ks # k + 1 THEN Raise("AssertionError")
        ELSE masked_pair(q, adjusted_mask(other_index_mask(q.indices), n, k), n, k)

\* The n x 1 arrays of points on a line; several points may coincide.
KnnClouds(n) == {[shape |-> <<n, 1>>, data |-> d] : d \in [1..n -> 0..KnnMaxCoord]}

\* A tree over 2..KnnMaxN points, the same points as the query, and 1 <= k < N.
InitKnn ==
    /\ HAS_SHAPELY = FALSE
    /\ HAS_PYGEOS = FALSE
    /\ sklearn_installed = FALSE
    /\ \E n \in 2..KnnMaxN : \E a \in KnnClouds(n), k \in 1..(n - 1) :
          call = [op |-> "k_neighbors", tree |-> Tree("cKDTree", ndarray(a), NoMetric),
                  coordinates |-> a, k |-> k]
    /\ result = Pending
    /\ warned = <<>>
    /\ queried = <<>>

Call_k_neighbors ==
    /\ call.op = "k_neighbors"
    /\ result = Pending
    /\ \E q \in tree_query(call.tree, call.coordinates, call.k + 1) :
          /\ queried' = q
          /\ result' = k_neighbors(q, call.k)
    /\ UNCHANGED <<HAS_SHAPELY, HAS_PYGEOS, sklearn_installed, call, warned>>

NextKnn == Call_k_neighbors

SpecKnn == InitKnn /\ [][NextKnn]_vars

KnnDone == call.op = "k_neighbors" /\ result # Pending

\* Row i (0-based) of an n x w array, as a sequence.
RowOf(a, i) == SubSeq(a.data, i * a.shape[2] + 1, (i + 1) * a.shape[2])

\* C1: for a tree over N points queried with the same N coordinates and
\* 1 <= k < N, duplicates allowed, k_neighbors returns distances and indices
\* of exactly N rows of exactly k entries each, and row i of the indices
\* never holds i.
C1_KNeighborsShapeAndNoSelf ==
    KnnDone =>
        LET n == call.coordinates.shape[1]
        IN  /\ result.status = "ok"
            /\ result.value.distances.shape = <<n, call.k>>
            /\ Len(result.value.distances.data) = n * call.k
            /\ result.value.indices.shape = <<n, call.k>>
            /\ Len(result.value.indices.data) = n * call.k
            /\ \A i \in 0..(n - 1) : \A j \in 1..call.k :
                  RowOf(result.value.indices, i)[j] # i

\* Three coincident points, k = 1, and the tree answered the query for
\* point 0 with the two other points: no self-match to drop in that row.
C1_Witness ==
    /\ KnnDone
    /\ call.coordinates.data = <<1, 1, 1>>
    /\ call.k = 1
    /\ RowOf(queried.indices, 0) = <<2, 1>>
    /\ result.status = "ok"
    /\ RowOf(result.value.indices, 0) = <<2>>

\* The sequence without its entry at position p.
RemoveAt(sq, p) == SubSeq(sq, 1, p - 1) \o SubSeq(sq, p + 1, Len(sq))

\* The position to remove from the candidate row of point i: where i is, or
\* the last one if i is not in the row.
SelfPosition(row, i) ==
    IF \E p \in 1..Len(row) : row[p] = i
    THEN CHOOSE p \in 1..Len(row) : row[p] = i
    ELSE Len(row)

\* Row i of the result, with indices ris and distances rds, is the candidate
\* row (cand, cds) without its entry at pos, and holds the k nearest others.
IsNearestOthersRow(i, cand, cds, pos, ris, rds) ==
    /\ ris = RemoveAt(cand, pos)
    /\ rds = RemoveAt(cds, pos)
    /\ \A a, b \in 1..call.k : a < b => (rds[a] <= rds[b] /\ ris[a] # ris[b])
    /\ \A a \in 1..call.k :
          /\ ris[a] # i
          /\ rds[a] = distance(call.coordinates, i, ris[a])
    /\ \A j \in 0..(call.coordinates.shape[1] - 1) :
          (j # i /\ \A a \in 1..call.k : ris[a] # j) =>
              distance(call.coordinates, i, j) >= rds[call.k]

\* C10: each result row i is the tree's candidate row with exactly one entry
\* removed, the one with index i if there is one and the last one otherwise,
\* the rest in their order; so the distances of the row do not decrease and
\* are the k smallest distances from point i to the points j # i, also with
\* several copies of point i.
C10_KNeighborsNearestOthers ==
    KnnDone =>
        /\ result.status = "ok"
        /\ \A i \in 0..(call.coordinates.shape[1] - 1) :
              IsNearestOthersRow(i, RowOf(queried.indices, i), RowOf(queried.distances, i),
                                 SelfPosition(RowOf(queried.indices, i), i),
                                 RowOf(result.value.indices, i),
                                 RowOf(result.value.distances, i))

\* Points 0, 1, 1 on a line with k = 1: the tree put the copy of point 1
\* before point 1 itself, and the copy is the neighbour returned.
C10_Witness ==
    /\ KnnDone
    /\ call.coordinates.data = <<0, 1, 1>>
    /\ call.k = 1
    /\ RowOf(queried.indices, 1) = <<2, 1>>
    /\ result.status = "ok"
    /\ RowOf(result.value.indices, 1) = <<2>>
    /\ RowOf(result.value.distances, 1) = <<0>>

====
